---- MODULE Spec2Model ----
(***************************************************************************)
(* A model of aspect-ratio/pillarbox_to_4x3.py: the crop decision, the     *)
(* encoder and quality selection, the command builder, the batch loop of   *)
(* main() and the two pump threads of run_live_capture().                  *)
(*                                                                         *)
(* Python values are modelled as follows.                                  *)
(*   None / a value        the empty tuple <<>> / the 1-tuple <<v>>        *)
(*   a JSON value          a record [t, n, s]: t = "null" (key absent),    *)
(*                         "int" (number n) or "str" (the characters s)    *)
(*   a pathlib.Path        a record [parent, stem, suffix]                 *)
(*   an argv list          a sequence of strings                           *)
(*   float arithmetic      exact integer inequalities, see Round43,        *)
(*                         Near43 and WiderThan43                          *)
(***************************************************************************)
EXTENDS Integers, Sequences, FiniteSets, TLC

VARIABLES
    args,        \* the parsed command line: inputs, output, use_cropdetect, crf, preset, dry_run
    idx,         \* how many of args.inputs the for loop of main() has taken
    pc,          \* where main() (or one of the function harnesses) stands
    v,           \* the probed video stream's fields, with the container bit rate
    iw, ih,      \* main(): parsed width and height (None or an integer)
    codec_name,  \* main(): the stream's codec name (None or a string)
    v_bitrate,   \* main(): the bit rate after the fallback and the clamp
    lines,       \* the output lines of the cropdetect scan
    crop,        \* main(): None or the crop <<w, h, x, y>>
    cmd,         \* main(): the argv built for the current file
    calls,       \* every external tool run so far: [tool, file, rc]
    printed,     \* per input position, how many "$ ..." lines main() printed
    warned,      \* what went to stderr: [kind, file]
    exit_code,   \* None while running, else the process's exit status
    cap          \* run_live_capture(): process, pipes, pump threads, caller

vars == <<args, idx, pc, v, iw, ih, codec_name, v_bitrate, lines, crop, cmd,
          calls, printed, warned, exit_code, cap>>

----------------------------------------------------------------------------
(* Python values *)

None == <<>>

Some(x) == <<x>>

Min(a, b) == IF a <= b THEN a ELSE b

Abs(a) == IF a < 0 THEN -a ELSE a

JNull == [t |-> "null", n |-> 0, s |-> <<>>]

JInt(k) == [t |-> "int", n |-> k, s |-> <<>>]

JStr(chars) == [t |-> "str", n |-> 0, s |-> chars]

DigitChars == <<"0", "1", "2", "3", "4", "5", "6", "7", "8", "9">>

IsDigit(c) == \E d \in DOMAIN DigitChars : DigitChars[d] = c

DigitVal(c) == (CHOOSE d \in DOMAIN DigitChars : DigitChars[d] = c) - 1

RECURSIVE DigitsVal(_)
DigitsVal(s) ==
    IF s = <<>> THEN 0
    ELSE 10 * DigitsVal(SubSeq(s, 1, Len(s) - 1)) + DigitVal(s[Len(s)])

\* The decimal literals int() accepts among the strings the model feeds it:
\* an optional sign and at least one digit.
IsIntLiteral(s) ==
    LET body == IF s # <<>> /\ s[1] \in {"-", "+"} THEN Tail(s) ELSE s
    IN  body # <<>> /\ \A i \in DOMAIN body : IsDigit(body[i])

IntOfLiteral(s) ==
    IF s[1] = "-" THEN -DigitsVal(Tail(s))
    ELSE IF s[1] = "+" THEN DigitsVal(Tail(s))
    ELSE DigitsVal(s)

\* A faulty variant of parse_int: 0 where the value is unreadable, so that
\* "no data" and "data is zero" are no longer told apart.
parse_intZeroDefault(x) ==
    IF x.t = "int" THEN Some(x.n)
    ELSE IF x.t = "str" /\ IsIntLiteral(x.s) THEN Some(IntOfLiteral(x.s))
    ELSE Some(0)

\* parse_int(x): int(x), or None on TypeError (x is None) or ValueError.
parse_int(x) ==
    IF x.t = "int" THEN Some(x.n)
    ELSE IF x.t = "str" /\ IsIntLiteral(x.s) THEN Some(IntOfLiteral(x.s))
    ELSE None

\* str(n) of a non-negative integer, as characters: how ffprobe prints bit_rate.
RECURSIVE DecimalChars(_)
DecimalChars(k) ==
    IF k < 10 THEN <<DigitChars[k + 1]>>
    ELSE Append(DecimalChars(k \div 10), DigitChars[(k % 10) + 1])

----------------------------------------------------------------------------
(* Crop geometry *)

\* even(n): n and n % 2 are Python ints; % takes the sign of the divisor, as TLA+'s does.
even(n) == n - (n % 2)

\* int(round(h * 4 / 3)). h*4 is exact in a double, the quotient's fraction is
\* 0, 1/3 or 2/3, never a tie, so round() gives the nearest integer:
\* floor(4h/3 + 1/2).
Round43(h) == (8 * h + 3) \div 6

\* A faulty variant of centered_4x3_crop: the width is not capped by the
\* source width.
centered_4x3_cropUncapped(w, h) ==
    LET target_w == even(Round43(h))
        target_h == even(h)
        x == even((w - target_w) \div 2)
        y == even((h - target_h) \div 2)
    IN  <<target_w, target_h, x, y>>

centered_4x3_crop(w, h) ==
    LET target_w == even(Min(w, Round43(h)))
        target_h == even(h)
        x == even((w - target_w) \div 2)
        y == even((h - target_h) \div 2)
    IN  <<target_w, target_h, x, y>>

\* abs((cw / ch) - (4/3)) < 0.01 for ch # 0, as |3cw - 4ch| / |3ch| < 1/100.
\* The doubles decide every pair with |cw| < 4000, |ch| < 2400 the same way.
Near43(cw, ch) == 100 * Abs(3 * cw - 4 * ch) < 3 * Abs(ch)

\* A faulty variant of WiderThan43: src_aspect >= 4/3, the tolerance dropped.
WiderThan43NoTolerance(w, h) ==
    IF h = 0 THEN FALSE
    ELSE IF h > 0 THEN 3 * w >= 4 * h
    ELSE 3 * w <= 4 * h

\* src_aspect > (4/3) + 0.005 with src_aspect = iw / ih if ih else 0.0.
\* The double (4/3) + 0.005 lies just below 803/600, so the comparison is
\* true at iw/ih = 803/600 exactly and agrees with the rationals elsewhere
\* (checked for 0 <= iw < 4000, 0 < ih < 2400).
WiderThan43(w, h) ==
    IF h = 0 THEN FALSE
    ELSE IF h > 0 THEN 600 * w >= 803 * h
    ELSE 600 * w <= 803 * h

\* A line of the scan's output: "crop" holds a well-formed crop=W:H:X:Y token,
\* "badcrop" holds "crop=" followed by something int() or the unpacking
\* rejects, "other" holds no "crop=".
CropLine(t) == [kind |-> "crop", frag |-> t]

BadCropLine == [kind |-> "badcrop", frag |-> <<>>]

OtherLine == [kind |-> "other", frag |-> <<>>]

\* The loop over the lines: crops collects the tuples that parse, in order.
RECURSIVE ParseCrops(_)
ParseCrops(ls) ==
    IF ls = <<>> THEN <<>>
    ELSE IF ls[1].kind = "crop" THEN <<ls[1].frag>> \o ParseCrops(Tail(ls))
    ELSE ParseCrops(Tail(ls))

Count(s, t) == Cardinality({i \in DOMAIN s : s[i] = t})

\* A faulty variant of MostCommon: the first suggestion, whatever its count.
MostCommonFirstSeen(s) == s[1]

\* Counter(crops).most_common(1)[0][0]: a Counter keeps first-insertion order
\* and most_common(1) is max() over its items, which keeps the first maximum.
MostCommon(s) ==
    LET best == CHOOSE i \in DOMAIN s :
                    /\ \A j \in DOMAIN s : Count(s, s[j]) <= Count(s, s[i])
                    /\ \A j \in 1..(i - 1) : Count(s, s[j]) < Count(s, s[i])
    IN  s[best]

EvenAll(t) == <<even(t[1]), even(t[2]), even(t[3]), even(t[4])>>

\* run_cropdetect(path, seconds), from the scan's output lines on.
run_cropdetect(ls) ==
    LET crops == ParseCrops(ls)
    IN  IF crops = <<>> THEN None ELSE Some(EvenAll(MostCommon(crops)))

\* main(), "if abs(...) < 0.01": the width becomes the exact 4:3 width of the
\* height and x is recentred in the source width.
SnapTo43(c, w) ==
    LET cw == even(Round43(c[2]))
    IN  <<cw, c[2], even((w - cw) \div 2), c[4]>>

\* main(), "Decide crop": st = "crop" with the crop to encode, "nocrop" for
\* the stream copy, "zerodiv" when cw / ch raises ZeroDivisionError.
DecideCrop(use_cropdetect, ls, w, h) ==
    LET c == IF use_cropdetect THEN run_cropdetect(ls) ELSE None
    IN  IF c # None
        THEN IF c[1][2] = 0 THEN [st |-> "zerodiv", crop |-> None]
             ELSE IF Near43(c[1][1], c[1][2])
                  THEN [st |-> "crop", crop |-> Some(SnapTo43(c[1], w))]
                  ELSE [st |-> "crop", crop |-> c]
        ELSE IF WiderThan43(w, h)
             THEN [st |-> "crop", crop |-> Some(centered_4x3_crop(w, h))]
             ELSE [st |-> "nocrop", crop |-> None]

----------------------------------------------------------------------------
(* Encoder, quality arguments and the commands *)

CODEC_MAP ==
    [h264 |-> "libx264", hevc |-> "libx265", mpeg4 |-> "mpeg4",
     mpeg2video |-> "mpeg2video", vp9 |-> "libvpx-vp9", av1 |-> "libaom-av1",
     theora |-> "libtheora", prores |-> "prores_ks", h263 |-> "h263"]

choose_encoder(name) ==
    IF name \in DOMAIN CODEC_MAP THEN CODEC_MAP[name] ELSE name

\* "if v_bitrate is not None and v_bitrate < 100_000"
MinBitrate == 100000

\* A faulty variant of ProbedBitrate: the clamp forgotten.
ProbedBitrateUnclamped(s) ==
    LET own == parse_int(s.bit_rate)
    IN  IF own = None THEN parse_int(s.format_bit_rate) ELSE own

\* main(): the stream's bit rate, else the container's, dropped when below
\* MinBitrate.
ProbedBitrate(s) ==
    LET own == parse_int(s.bit_rate)
        b == IF own = None THEN parse_int(s.format_bit_rate) ELSE own
    IN  IF b # None /\ b[1] < MinBitrate THEN None ELSE b

\* The encoders that get "-b:v 0" beside a CRF.
ZeroBitrateEncoders == {"libvpx-vp9", "libaom-av1"}

\* The encoders whose fallback CRF is 18.
X26xEncoders == {"libx264", "libx265"}

\* build_ffmpeg_cmd(), "Choose quality mode".
QualityArgs(v_encoder, bitrate, crf) ==
    IF crf # None
    THEN <<"-crf", ToString(crf[1])>>
         \o (IF v_encoder \in ZeroBitrateEncoders THEN <<"-b:v", "0">> ELSE <<>>)
    ELSE IF bitrate # None /\ bitrate[1] > 0
    THEN <<"-b:v", ToString(bitrate[1]), "-maxrate", ToString(bitrate[1]),
           "-bufsize", ToString(bitrate[1] * 2)>>
    ELSE <<"-crf", IF v_encoder \in X26xEncoders THEN "18" ELSE "28">>
         \o (IF v_encoder \in ZeroBitrateEncoders THEN <<"-b:v", "0">> ELSE <<>>)

\* str(path)
PathStr(p) == p.parent \o "/" \o p.stem \o p.suffix

\* Path(outdir or p.parent, f"{stem}.4x3{p.suffix}")
output_path_for(p, outdir) ==
    [parent |-> IF outdir # None /\ outdir[1] # "" THEN outdir[1] ELSE p.parent,
     stem |-> p.stem \o ".4x3",
     suffix |-> p.suffix]

CropFilter(c) ==
    "crop=" \o ToString(c[1]) \o ":" \o ToString(c[2]) \o ":"
            \o ToString(c[3]) \o ":" \o ToString(c[4])

build_ffmpeg_cmd(src, dst, c, v_encoder, bitrate, crf, preset) ==
    <<"ffmpeg", "-stats", "-loglevel", "level+info", "-y", "-i", PathStr(src),
      "-map", "0", "-map_metadata", "0", "-map_chapters", "0",
      "-c:a", "copy", "-c:s", "copy", "-c:d", "copy", "-c:t", "copy",
      "-c:v", v_encoder, "-vf", CropFilter(c), "-preset", preset>>
    \o QualityArgs(v_encoder, bitrate, crf)
    \o <<"-movflags", "use_metadata_tags+faststart", PathStr(dst)>>

\* main(), "Just stream copy everything if no crop needed".
CopyCmd(src, dst) ==
    <<"ffmpeg", "-stats", "-loglevel", "level+info", "-y", "-i", PathStr(src),
      "-map", "0", "-map_metadata", "0", "-map_chapters", "0",
      "-c", "copy", "-movflags", "use_metadata_tags+faststart", PathStr(dst)>>

\* main(), from "Choose encoder based on source codec" to the call of
\* build_ffmpeg_cmd: codec_name or "", and no bit rate beside a requested CRF.
EncodeCmd(a, srcp, c, codec, bitrate) ==
    build_ffmpeg_cmd(srcp, output_path_for(srcp, a.output), c,
                     choose_encoder(IF codec = None THEN "" ELSE codec[1]),
                     IF a.crf = None THEN bitrate ELSE None,
                     a.crf, a.preset)

\* pix_fmt.endswith("10le"), over the pixel formats the model probes.
TenBitFormats == {"yuv420p10le", "yuv422p10le", "yuv444p10le"}

NeedsTenBitNote(codec, pix_fmt) ==
    /\ choose_encoder(IF codec = None THEN "" ELSE codec[1]) \in X26xEncoders
    /\ pix_fmt \in TenBitFormats

----------------------------------------------------------------------------
(* The batch: what the command line and the external tools may hand main() *)

\* How many input files the batch has.
NumFiles == 2

InputPool ==
    <<[parent |-> "in", stem |-> "a", suffix |-> ".mp4"],
      [parent |-> "in", stem |-> "b", suffix |-> ".mkv"],
      [parent |-> "in", stem |-> "c", suffix |-> ".mov"]>>

Inputs == [i \in 1..NumFiles |-> InputPool[((i - 1) % Len(InputPool)) + 1]]

\* argparse: --crf is absent or an int, --preset defaults to "medium".
BatchArgs ==
    {[inputs |-> Inputs, output |-> o, use_cropdetect |-> u, crf |-> c,
      preset |-> "medium", dry_run |-> d] :
        o \in {None, Some("out")}, u \in BOOLEAN, c \in {None, Some(0), Some(23)},
        d \in BOOLEAN}

Stream(w, h, codec, rate, pix, frate) ==
    [width |-> w, height |-> h, codec_name |-> codec, bit_rate |-> rate,
     pix_fmt |-> pix, format_bit_rate |-> frate]

NotANumber == JStr(<<"N", "/", "A">>)

\* The first video stream ffprobe may report, with the container's bit rate:
\* sizes wider than, equal to and near 4:3, zero and unreadable dimensions;
\* an 8-bit-only encoder on 10-bit input, a codec with a zero-bitrate CRF
\* mode, no codec name; a usable, an absent and a too-low stream bit rate.
BatchStreams ==
    {Stream(d[1], d[2], k[1], k[2], k[3], JStr(DecimalChars(2000000))) :
        d \in {<<JInt(1920), JInt(1080)>>, <<JInt(1280), JInt(960)>>,
               <<JInt(1438), JInt(1080)>>, <<JInt(803), JInt(600)>>,
               <<JInt(0), JInt(1080)>>,
               <<JInt(1920), JInt(0)>>, <<JNull, JInt(1080)>>,
               <<JInt(1920), NotANumber>>},
        k \in {<<Some("h264"), JStr(DecimalChars(4000000)), "yuv420p10le">>,
               <<Some("vp9"), JNull, "yuv420p">>,
               <<None, JStr(DecimalChars(50000)), "yuv420p">>}}

\* What cropdetect may print for a source of w x h: nothing, log lines
\* without a crop, the full frame, a pillarbox two pixels off with the exact
\* one in the minority, a malformed token, a frame with no rows left.
BatchScans(w, h) ==
    LET w43 == (4 * h) \div 3
        x43 == (w - w43) \div 2
    IN  {<<>>,
         <<OtherLine>>,
         <<OtherLine, CropLine(<<w, h, 0, 0>>)>>,
         <<CropLine(<<w43 - 2, h, x43 + 1, 0>>), CropLine(<<w43, h, x43, 0>>),
           CropLine(<<w43 - 2, h, x43 + 1, 0>>)>>,
         <<BadCropLine>>,
         <<CropLine(<<w, 0, 0, 0>>)>>}

\* The exit statuses a failing ffmpeg may return.
FailCodes == {1, 69}

Idle == [pc |-> "idle"]

Init ==
    /\ args \in BatchArgs
    /\ idx = 0
    /\ pc = "start"
    /\ v = None
    /\ iw = None
    /\ ih = None
    /\ codec_name = None
    /\ v_bitrate = None
    /\ lines = <<>>
    /\ crop = None
    /\ cmd = <<>>
    /\ calls = <<>>
    /\ printed = [i \in 1..Len(args.inputs) |-> 0]
    /\ warned = <<>>
    /\ exit_code = None
    /\ cap = Idle

----------------------------------------------------------------------------
(* main() *)

\* shutil.which() finds no ffmpeg or no ffprobe: sys.exit(1) before any file.
ToolsMissing ==
    /\ pc = "start"
    /\ pc' = "exited"
    /\ exit_code' = Some(1)
    /\ warned' = Append(warned, [kind |-> "no-tools", file |-> 0])
    /\ UNCHANGED <<args, idx, v, iw, ih, codec_name, v_bitrate, lines, crop,
                   cmd, calls, printed, cap>>

\* Both tools found, the output directory made: enter the loop.
Start ==
    /\ pc = "start"
    /\ pc' = "loop"
    /\ UNCHANGED <<args, idx, v, iw, ih, codec_name, v_bitrate, lines, crop,
                   cmd, calls, printed, warned, exit_code, cap>>

\* The loop takes the next input. The locals of the previous iteration are
\* never read before they are assigned again: the model clears them.
TakeNext ==
    /\ pc = "loop"
    /\ idx < Len(args.inputs)
    /\ idx' = idx + 1
    /\ lines' = <<>>
    /\ crop' = None
    /\ cmd' = <<>>

ClearProbe ==
    /\ v' = None
    /\ iw' = None
    /\ ih' = None
    /\ codec_name' = None
    /\ v_bitrate' = None

\* "if not srcp.exists()": warn and continue.
SkipMissing ==
    /\ TakeNext
    /\ ClearProbe
    /\ warned' = Append(warned, [kind |-> "missing", file |-> idx + 1])
    /\ UNCHANGED <<args, pc, calls, printed, exit_code, cap>>

\* ffprobe_json() raises: RuntimeError on a non-zero status, JSONDecodeError
\* from json.loads() on output that does not parse. main() catches neither,
\* so the interpreter prints the traceback and exits with status 1.
ProbeRaises ==
    /\ TakeNext
    /\ ClearProbe
    /\ \E e \in {"RuntimeError", "JSONDecodeError"} :
           /\ warned' = Append(warned, [kind |-> e, file |-> idx + 1])
           /\ calls' = Append(calls, [tool |-> "ffprobe", file |-> idx + 1,
                                      rc |-> IF e = "RuntimeError" THEN 1 ELSE 0])
    /\ pc' = "crashed"
    /\ exit_code' = Some(1)
    /\ UNCHANGED <<args, printed, cap>>

\* get_video_stream() returns None: warn and continue.
NoVideoStream ==
    /\ TakeNext
    /\ ClearProbe
    /\ calls' = Append(calls, [tool |-> "ffprobe", file |-> idx + 1, rc |-> 0])
    /\ warned' = Append(warned, [kind |-> "no-video", file |-> idx + 1])
    /\ UNCHANGED <<args, pc, printed, exit_code, cap>>

\* The assignments of main() from iw = parse_int(...) to the clamp.
ReadStream(s) ==
    /\ v' = Some(s)
    /\ iw' = parse_int(s.width)
    /\ ih' = parse_int(s.height)
    /\ codec_name' = s.codec_name
    /\ v_bitrate' = ProbedBitrate(s)

\* "if iw is None or ih is None": warn and continue.
NoDimensions ==
    /\ TakeNext
    /\ \E s \in BatchStreams :
           /\ parse_int(s.width) = None \/ parse_int(s.height) = None
           /\ ReadStream(s)
    /\ calls' = Append(calls, [tool |-> "ffprobe", file |-> idx + 1, rc |-> 0])
    /\ warned' = Append(warned, [kind |-> "no-dimensions", file |-> idx + 1])
    /\ UNCHANGED <<args, pc, printed, exit_code, cap>>

\* The probe gave a video stream with both dimensions: on to the crop.
ProbeOk ==
    /\ TakeNext
    /\ \E s \in BatchStreams :
           /\ parse_int(s.width) # None /\ parse_int(s.height) # None
           /\ ReadStream(s)
    /\ calls' = Append(calls, [tool |-> "ffprobe", file |-> idx + 1, rc |-> 0])
    /\ pc' = "decide"
    /\ UNCHANGED <<args, printed, warned, exit_code, cap>>

\* "if args.use_cropdetect": the scan runs, once, and prints ls. Its exit
\* status is never read; the log keeps 0 for it.
Scanned(ls) ==
    /\ ls \in (IF args.use_cropdetect THEN BatchScans(iw[1], ih[1]) ELSE {<<>>})
    /\ lines' = ls
    /\ calls' = IF args.use_cropdetect
                THEN Append(calls, [tool |-> "cropdetect", file |-> idx, rc |-> 0])
                ELSE calls

\* A faulty variant of PrintCmd: --dry-run is not looked at.
PrintCmdThenRun ==
    /\ printed' = [printed EXCEPT ![idx] = @ + 1]
    /\ pc' = "run"

\* print("$", ...), then either the next file (dry run) or the execution.
PrintCmd ==
    /\ printed' = [printed EXCEPT ![idx] = @ + 1]
    /\ pc' = IF args.dry_run THEN "loop" ELSE "run"

\* cw / ch with ch = 0: ZeroDivisionError, uncaught.
CropdetectRaises ==
    /\ pc = "decide"
    /\ \E ls \in BatchScans(iw[1], ih[1]) :
           /\ Scanned(ls)
           /\ DecideCrop(args.use_cropdetect, ls, iw[1], ih[1]).st = "zerodiv"
    /\ warned' = Append(warned, [kind |-> "ZeroDivisionError", file |-> idx])
    /\ pc' = "crashed"
    /\ exit_code' = Some(1)
    /\ UNCHANGED <<args, idx, v, iw, ih, codec_name, v_bitrate, crop, cmd,
                   printed, cap>>

\* No crop: the stream-copy command.
PlanCopy ==
    /\ pc = "decide"
    /\ \E ls \in BatchScans(iw[1], ih[1]) \cup {<<>>} :
           /\ Scanned(ls)
           /\ DecideCrop(args.use_cropdetect, ls, iw[1], ih[1]).st = "nocrop"
    /\ cmd' = CopyCmd(args.inputs[idx],
                      output_path_for(args.inputs[idx], args.output))
    /\ PrintCmd
    /\ UNCHANGED <<args, idx, v, iw, ih, codec_name, v_bitrate, crop, warned,
                   exit_code, cap>>

\* A crop: the 10-bit note, then the re-encode command.
PlanEncode ==
    /\ pc = "decide"
    /\ \E ls \in BatchScans(iw[1], ih[1]) \cup {<<>>} :
           LET d == DecideCrop(args.use_cropdetect, ls, iw[1], ih[1])
           IN  /\ Scanned(ls)
               /\ d.st = "crop"
               /\ crop' = d.crop
               /\ cmd' = EncodeCmd(args, args.inputs[idx], d.crop[1],
                                   codec_name, v_bitrate)
    /\ warned' = IF NeedsTenBitNote(codec_name, v[1].pix_fmt)
                 THEN Append(warned, [kind |-> "10-bit", file |-> idx])
                 ELSE warned
    /\ PrintCmd
    /\ UNCHANGED <<args, idx, v, iw, ih, codec_name, v_bitrate, exit_code, cap>>

\* run_live_capture(cmd) returns 0: the loop goes on.
ExecOk ==
    /\ pc = "run"
    /\ calls' = Append(calls, [tool |-> "ffmpeg", file |-> idx, rc |-> 0])
    /\ pc' = "loop"
    /\ UNCHANGED <<args, idx, v, iw, ih, codec_name, v_bitrate, lines, crop,
                   cmd, printed, warned, exit_code, cap>>

\* A faulty variant of ExecFails: the failure is reported and the loop goes on.
ExecFailsAndContinues ==
    /\ pc = "run"
    /\ \E rc \in FailCodes :
           calls' = Append(calls, [tool |-> "ffmpeg", file |-> idx, rc |-> rc])
    /\ warned' = Append(warned, [kind |-> "ffmpeg-stderr", file |-> idx])
    /\ pc' = "loop"
    /\ UNCHANGED <<args, idx, v, iw, ih, codec_name, v_bitrate, lines, crop,
                   cmd, printed, exit_code, cap>>

\* run_live_capture(cmd) returns rc # 0: print(err), sys.exit(rc).
ExecFails ==
    /\ pc = "run"
    /\ \E rc \in FailCodes :
           /\ calls' = Append(calls, [tool |-> "ffmpeg", file |-> idx, rc |-> rc])
           /\ exit_code' = Some(rc)
    /\ warned' = Append(warned, [kind |-> "ffmpeg-stderr", file |-> idx])
    /\ pc' = "exited"
    /\ UNCHANGED <<args, idx, v, iw, ih, codec_name, v_bitrate, lines, crop,
                   cmd, printed, cap>>

\* The inputs are exhausted: main() returns and the process exits with 0.
LoopEnd ==
    /\ pc = "loop"
    /\ idx = Len(args.inputs)
    /\ pc' = "done"
    /\ exit_code' = Some(0)
    /\ UNCHANGED <<args, idx, v, iw, ih, codec_name, v_bitrate, lines, crop,
                   cmd, calls, printed, warned, cap>>

Next ==
    \/ ToolsMissing
    \/ Start
    \/ SkipMissing
    \/ ProbeRaises
    \/ NoVideoStream
    \/ NoDimensions
    \/ ProbeOk
    \/ CropdetectRaises
    \/ PlanCopy
    \/ PlanEncode
    \/ ExecOk
    \/ ExecFails
    \/ LoopEnd

Spec == Init /\ [][Next]_vars

----------------------------------------------------------------------------
(* The pure parts of main() on wider inputs than the batch tries.           *)
(* Each specification below starts main() on one dry-run file at the point  *)
(* where the part begins and applies the very operators the batch uses.     *)

OneFileArgs(u, c) ==
    [inputs |-> <<InputPool[1]>>, output |-> None, use_cropdetect |-> u,
     crf |-> c, preset |-> "medium", dry_run |-> TRUE]

\* main() stands in its first iteration, nothing probed or planned yet.
FirstIteration ==
    /\ idx = 1
    /\ codec_name = None
    /\ v_bitrate = None
    /\ lines = <<>>
    /\ crop = None
    /\ cmd = <<>>
    /\ calls = <<>>
    /\ printed = [i \in 1..1 |-> 0]
    /\ warned = <<>>
    /\ exit_code = None
    /\ cap = Idle

\* Source sizes, width then height, taken from real material and from the
\* corners of the arithmetic: 16:9, exact 4:3, a frame two pixels narrower
\* than 4:3, the tolerance's boundary, an NTSC frame, odd dimensions.
SampleSizes ==
    {<<1920, 1080>>, <<1280, 960>>, <<1438, 1080>>, <<803, 600>>, <<720, 480>>,
     <<1921, 1081>>}

\* The largest width and height of the exhaustive grid.
MaxDim == 12

CenteredSizes == ((1..MaxDim) \X (1..MaxDim)) \cup SampleSizes

InitCentered ==
    /\ pc = "centered_in"
    /\ args = OneFileArgs(FALSE, None)
    /\ v = None
    /\ \E sz \in CenteredSizes : iw = Some(sz[1]) /\ ih = Some(sz[2])
    /\ FirstIteration

\* crop = centered_4x3_crop(iw, ih)
ApplyCentered ==
    /\ pc = "centered_in"
    /\ crop' = Some(centered_4x3_crop(iw[1], ih[1]))
    /\ pc' = "centered_out"
    /\ UNCHANGED <<args, idx, v, iw, ih, codec_name, v_bitrate, lines, cmd,
                   calls, printed, warned, exit_code, cap>>

NextCentered == ApplyCentered

SpecCentered == InitCentered /\ [][NextCentered]_vars

\* The longest scan output, in lines.
MaxScan == 4

CropSizes == {<<1920, 1080>>, <<1280, 960>>, <<1438, 1080>>, <<13, 7>>}

\* The lines a scan of a w x h source may print: the full frame, the exact
\* pillarbox, one two pixels narrower, one with odd values, one a single row
\* high, a malformed token, a line without a crop.
ScanLines(w, h) ==
    LET w43 == (4 * h) \div 3
        x43 == (w - w43) \div 2
    IN  {CropLine(<<w, h, 0, 0>>),
         CropLine(<<w43, h, x43, 0>>),
         CropLine(<<w43 - 2, h, x43 + 1, 0>>),
         CropLine(<<w43 - 1, h - 1, x43, 1>>),
         CropLine(<<w, 1, 0, 0>>),
         BadCropLine,
         OtherLine}

InitCrop ==
    /\ pc = "scan"
    /\ \E u \in BOOLEAN : args = OneFileArgs(u, None)
    /\ v = None
    /\ \E sz \in CropSizes : iw = Some(sz[1]) /\ ih = Some(sz[2])
    /\ FirstIteration

\* The scan prints one more line.
ScanLine ==
    /\ pc = "scan"
    /\ args.use_cropdetect
    /\ Len(lines) < MaxScan
    /\ \E l \in ScanLines(iw[1], ih[1]) : lines' = Append(lines, l)
    /\ UNCHANGED <<args, idx, pc, v, iw, ih, codec_name, v_bitrate, crop, cmd,
                   calls, printed, warned, exit_code, cap>>

\* The scan is over (or there is none) and main() decides on the crop.
CropDecided ==
    /\ pc = "scan"
    /\ LET d == DecideCrop(args.use_cropdetect, lines, iw[1], ih[1])
       IN  /\ d.st # "zerodiv"
           /\ crop' = d.crop
           /\ pc' = d.st
    /\ UNCHANGED <<args, idx, v, iw, ih, codec_name, v_bitrate, lines, cmd,
                   calls, printed, warned, exit_code, cap>>

\* The decision divides by a zero height.
CropRaised ==
    /\ pc = "scan"
    /\ DecideCrop(args.use_cropdetect, lines, iw[1], ih[1]).st = "zerodiv"
    /\ pc' = "crashed"
    /\ exit_code' = Some(1)
    /\ UNCHANGED <<args, idx, v, iw, ih, codec_name, v_bitrate, lines, crop,
                   cmd, calls, printed, warned, cap>>

NextCrop ==
    \/ ScanLine
    \/ CropDecided
    \/ CropRaised

SpecCrop == InitCrop /\ [][NextCrop]_vars

\* What --crf may be.
QualityCrfs == {None, Some(0), Some(18), Some(23)}

\* What ffprobe may print as a bit rate: nothing, "N/A", a negative number,
\* numbers below, at and above the clamp, a JSON number. The container's rates differ from
\* the stream's so that the command shows which one was taken.
StreamRates ==
    {JNull, NotANumber, JStr(<<"-", "1">>), JStr(<<"0">>), JStr(DecimalChars(99999)),
     JStr(DecimalChars(100000)), JStr(DecimalChars(4000000)), JInt(128000)}

FormatRates ==
    {JNull, NotANumber, JStr(DecimalChars(99998)),
     JStr(DecimalChars(100001)), JStr(DecimalChars(5000000))}

QualityCodecs == {None, Some("dnxhd")} \cup {Some(c) : c \in DOMAIN CODEC_MAP}

InitQuality ==
    /\ pc = "quality_in"
    /\ \E c \in QualityCrfs : args = OneFileArgs(FALSE, c)
    /\ \E k \in QualityCodecs, r \in StreamRates, f \in FormatRates :
           v = Some(Stream(JInt(1920), JInt(1080), k, r, "yuv420p", f))
    /\ iw = None
    /\ ih = None
    /\ FirstIteration

\* main() from the probe's result to the built command, for a wide source.
BuildQuality ==
    /\ pc = "quality_in"
    /\ iw' = parse_int(v[1].width)
    /\ ih' = parse_int(v[1].height)
    /\ codec_name' = v[1].codec_name
    /\ v_bitrate' = ProbedBitrate(v[1])
    /\ crop' = DecideCrop(FALSE, <<>>, iw'[1], ih'[1]).crop
    /\ cmd' = EncodeCmd(args, args.inputs[idx], crop'[1], codec_name', v_bitrate')
    /\ pc' = "quality_out"
    /\ UNCHANGED <<args, idx, v, lines, calls, printed, warned, exit_code, cap>>

NextQuality == BuildQuality

SpecQuality == InitQuality /\ [][NextQuality]_vars

----------------------------------------------------------------------------
(* run_live_capture(cmd): the child process, its two pipes, the two pump    *)
(* threads and the calling thread. cap holds:                               *)
(*   pc      where the caller stands                                        *)
(*   script  per channel, the lines the child writes before it exits        *)
(*   sent    per channel, how many of them it has written                   *)
(*   proc    "none", "running" or "exited"; rc is its exit status           *)
(*   pipe    per channel, the lines written and not yet read                *)
(*   t       per channel, the pump thread: its pc and the line in hand      *)
(*   sink    per channel, what reached the terminal                         *)
(*   store   per channel, out_lines / err_lines                             *)
(*   result  None, or the returned (rc, stdout text, stderr text)           *)

Channels == {"out", "err"}

\* The most lines the child writes on one channel.
MaxLines == 2

\* How many unread lines a pipe holds before the child's write blocks.
PipeCap == 1

ScriptLine(ch, i) == ch \o ToString(i) \o "\n"

Script(ch, n) == [i \in 1..n |-> ScriptLine(ch, i)]

\* "".join(lines)
RECURSIVE JoinLines(_)
JoinLines(ls) == IF ls = <<>> THEN "" ELSE ls[1] \o JoinLines(Tail(ls))

NewThread == [pc |-> "unstarted", line |-> ""]

InitCapture ==
    /\ pc = "run"
    /\ args = [OneFileArgs(FALSE, None) EXCEPT !.dry_run = FALSE]
    /\ v = None
    /\ iw = None
    /\ ih = None
    /\ idx = 1
    /\ codec_name = None
    /\ v_bitrate = None
    /\ lines = <<>>
    /\ crop = None
    /\ cmd = CopyCmd(args.inputs[1], output_path_for(args.inputs[1], None))
    /\ calls = <<>>
    /\ printed = [i \in 1..1 |-> 1]
    /\ warned = <<>>
    /\ exit_code = None
    /\ \E no \in 0..MaxLines, ne \in 0..MaxLines, rc \in {0, 1} :
           cap = [pc |-> "popen",
                  script |-> [out |-> Script("out", no), err |-> Script("err", ne)],
                  sent |-> [out |-> 0, err |-> 0],
                  proc |-> "none",
                  rc |-> rc,
                  pipe |-> [out |-> <<>>, err |-> <<>>],
                  t |-> [out |-> NewThread, err |-> NewThread],
                  sink |-> [out |-> <<>>, err |-> <<>>],
                  store |-> [out |-> <<>>, err |-> <<>>],
                  result |-> None]

mainVars == <<args, idx, pc, v, iw, ih, codec_name, v_bitrate, lines, crop,
              cmd, calls, printed, warned, exit_code>>

\* subprocess.Popen(...): the child runs, both pipes are open.
Popen ==
    /\ cap.pc = "popen"
    /\ cap' = [cap EXCEPT !.pc = "start_out", !.proc = "running"]
    /\ UNCHANGED mainVars

\* t_out.start()
StartOut ==
    /\ cap.pc = "start_out"
    /\ cap' = [cap EXCEPT !.pc = "start_err", !.t.out.pc = "read"]
    /\ UNCHANGED mainVars

\* t_err.start()
StartErr ==
    /\ cap.pc = "start_err"
    /\ cap' = [cap EXCEPT !.pc = "wait", !.t.err.pc = "read"]
    /\ UNCHANGED mainVars

\* The child writes its next line on ch; the write blocks while the pipe is full.
ChildWrites(ch) ==
    /\ cap.proc = "running"
    /\ cap.sent[ch] < Len(cap.script[ch])
    /\ Len(cap.pipe[ch]) < PipeCap
    /\ cap' = [cap EXCEPT !.sent[ch] = @ + 1,
                          !.pipe[ch] = Append(@, cap.script[ch][cap.sent[ch] + 1])]
    /\ UNCHANGED mainVars

\* The child has written everything and exits: its ends of the pipes close.
ChildExits ==
    /\ cap.proc = "running"
    /\ \A ch \in Channels : cap.sent[ch] = Len(cap.script[ch])
    /\ cap' = [cap EXCEPT !.proc = "exited"]
    /\ UNCHANGED mainVars

\* pump: "for line in src" yields the next line.
PumpReads(ch) ==
    /\ cap.t[ch].pc = "read"
    /\ cap.pipe[ch] # <<>>
    /\ cap' = [cap EXCEPT !.t[ch] = [pc |-> "echo", line |-> Head(cap.pipe[ch])],
                          !.pipe[ch] = Tail(@)]
    /\ UNCHANGED mainVars

\* pump: "for line in src" ends, the pipe is empty and closed.
PumpEnds(ch) ==
    /\ cap.t[ch].pc = "read"
    /\ cap.pipe[ch] = <<>>
    /\ cap.proc = "exited"
    /\ cap' = [cap EXCEPT !.t[ch].pc = "finished"]
    /\ UNCHANGED mainVars

\* pump: sink.write(line); sink.flush()
PumpEchoes(ch) ==
    /\ cap.t[ch].pc = "echo"
    /\ cap' = [cap EXCEPT !.sink[ch] = Append(@, cap.t[ch].line),
                          !.t[ch].pc = "append"]
    /\ UNCHANGED mainVars

\* pump: store.append(line)
PumpStores(ch) ==
    /\ cap.t[ch].pc = "append"
    /\ cap' = [cap EXCEPT !.store[ch] = Append(@, cap.t[ch].line),
                          !.t[ch] = [pc |-> "read", line |-> ""]]
    /\ UNCHANGED mainVars

\* rc = proc.wait() returns once the child has exited.
Waited ==
    /\ cap.pc = "wait"
    /\ cap.proc = "exited"
    /\ cap' = [cap EXCEPT !.pc = "join_out"]
    /\ UNCHANGED mainVars

\* A faulty variant of Joinable: the caller does not wait for the thread.
JoinableAtOnce(ch) == cap.t[ch].pc # "unstarted"

\* Thread.join() returns once the thread's target has returned.
Joinable(ch) == cap.t[ch].pc = "finished"

\* t_out.join()
JoinOut ==
    /\ cap.pc = "join_out"
    /\ Joinable("out")
    /\ cap' = [cap EXCEPT !.pc = "join_err"]
    /\ UNCHANGED mainVars

\* t_err.join(); return rc, "".join(out_lines), "".join(err_lines)
JoinErrAndReturn ==
    /\ cap.pc = "join_err"
    /\ Joinable("err")
    /\ cap' = [cap EXCEPT !.pc = "returned",
                          !.result = Some(<<cap.rc, JoinLines(cap.store.out),
                                            JoinLines(cap.store.err)>>)]
    /\ UNCHANGED mainVars

NextCapture ==
    \/ Popen
    \/ StartOut
    \/ StartErr
    \/ \E ch \in Channels : ChildWrites(ch)
    \/ ChildExits
    \/ \E ch \in Channels : PumpReads(ch)
    \/ \E ch \in Channels : PumpEnds(ch)
    \/ \E ch \in Channels : PumpEchoes(ch)
    \/ \E ch \in Channels : PumpStores(ch)
    \/ Waited
    \/ JoinOut
    \/ JoinErrAndReturn

SpecCapture == InitCapture /\ [][NextCapture]_vars

----------------------------------------------------------------------------
(* Properties *)

\* n rounded down to even: the even one of n - 1 and n.
EvenFloor(n) == CHOOSE r \in {n - 1, n} : r % 2 = 0

\* round(h * 4/3): the integer within 1/3 of 4h/3.
NearestTo43(h) ==
    CHOOSE r \in ((4 * h) \div 3 - 1)..((4 * h) \div 3 + 1) : Abs(3 * r - 4 * h) <= 1

HasFlag(c, f) == \E i \in DOMAIN c : c[i] = f

\* The argument that follows flag f in the command c.
ArgOf(c, f) == c[(CHOOSE i \in DOMAIN c : c[i] = f) + 1]

\* How often the scan suggested the tuple t.
Occurrences(t) ==
    Cardinality({i \in DOMAIN lines : lines[i].kind = "crop" /\ lines[i].frag = t})

Suggestions == {lines[i].frag : i \in {j \in DOMAIN lines : lines[j].kind = "crop"}}

\* How often ffmpeg was executed for input i.
ExecCount(i) ==
    Cardinality({k \in DOMAIN calls : calls[k].tool = "ffmpeg" /\ calls[k].file = i})

\* main() has finished planning the current file.
Planned == pc \in {"loop", "run", "done", "exited"} /\ cmd # <<>>

\* C1: every crop main() passes to build_ffmpeg_cmd for a source of positive
\* size, the scan's suggestions lying inside the frame, has four non-negative
\* even values and lies inside the source frame.
C1_CropEvenAndInside ==
    ( /\ Planned
      /\ crop # None
      /\ iw[1] > 0 /\ ih[1] > 0
      /\ \A t \in Suggestions :
             /\ t[1] > 0 /\ t[2] > 0 /\ t[3] >= 0 /\ t[4] >= 0
             /\ t[3] + t[1] <= iw[1] /\ t[4] + t[2] <= ih[1] )
    => /\ \A k \in 1..4 : crop[1][k] >= 0 /\ crop[1][k] % 2 = 0
       /\ crop[1][3] + crop[1][1] <= iw[1]
       /\ crop[1][4] + crop[1][2] <= ih[1]

\* iw/ih <= 4/3 + 0.005 as the program's doubles compare them: the double
\* 4/3 + 0.005 lies below 803/600, so a ratio of exactly 803/600 is greater.
AspectWithinTolerance == 600 * iw[1] < 803 * ih[1]

QualityPart(c) ==
    SubSeq(c, (CHOOSE i \in DOMAIN c : c[i] = "-preset") + 2,
              (CHOOSE i \in DOMAIN c : c[i] = "-movflags") - 1)

\* The probed bit rate the table speaks of: the stream's when it is known,
\* else the container's.
KnownBitrate ==
    IF parse_int(v[1].bit_rate) # None THEN parse_int(v[1].bit_rate)
    ELSE parse_int(v[1].format_bit_rate)

ZeroBitrateArgs(enc) ==
    IF enc \in {"libvpx-vp9", "libaom-av1"} THEN <<"-b:v", "0">> ELSE <<>>

QualityTable(crf, b, enc) ==
    IF crf # None THEN <<"-crf", ToString(crf[1])>> \o ZeroBitrateArgs(enc)
    ELSE IF b # None /\ b[1] >= 100000
    THEN <<"-b:v", ToString(b[1]), "-maxrate", ToString(b[1]),
           "-bufsize", ToString(2 * b[1])>>
    ELSE <<"-crf", IF enc \in {"libx264", "libx265"} THEN "18" ELSE "28">>
         \o ZeroBitrateArgs(enc)

\* C3: the quality arguments of the built command are those of the decision
\* table for the requested CRF, the probed bit rates and the encoder in the
\* command; beside an explicit CRF there are no bitrate-parity arguments.
C3_QualityFollowsTable ==
    pc = "quality_out" =>
        /\ QualityPart(cmd) = QualityTable(args.crf, KnownBitrate, ArgOf(cmd, "-c:v"))
        /\ args.crf # None => ~HasFlag(cmd, "-maxrate") /\ ~HasFlag(cmd, "-bufsize")

\* C3's case: no CRF requested, no stream bit rate, a container bit rate of
\* 5,000,000 and a vp9 source: bitrate parity from the container's rate.
C3_Witness ==
    /\ pc = "quality_out"
    /\ args.crf = None
    /\ v[1].bit_rate = JNull
    /\ v[1].codec_name = Some("vp9")
    /\ QualityPart(cmd) = <<"-b:v", "5000000", "-maxrate", "5000000",
                            "-bufsize", "10000000">>

ProbeFailed(i) ==
    \E k \in DOMAIN warned :
        warned[k].file = i /\ warned[k].kind \in {"RuntimeError", "JSONDecodeError"}

\* C4: a probe failure skips that file alone: nothing is planned or run for
\* it, and the program does not end before every later input was taken.
C4_ProbeFailureSkipsOneFile ==
    \A i \in DOMAIN printed :
        ProbeFailed(i) =>
            /\ printed[i] = 0
            /\ ExecCount(i) = 0
            /\ exit_code # None => idx = Len(args.inputs)

\* C5: a failed execution is the last thing the batch does: the program has
\* exited with that status, no step follows, and no tool has run for a later
\* input.
C5_FailFast ==
    \A k \in DOMAIN calls :
        (calls[k].tool = "ffmpeg" /\ calls[k].rc # 0) =>
            /\ k = Len(calls)
            /\ pc = "exited"
            /\ exit_code = Some(calls[k].rc)
            /\ ~ENABLED Next
            /\ \A j \in DOMAIN calls : calls[j].file <= calls[k].file
            /\ \A i \in DOMAIN printed : i > calls[k].file => printed[i] = 0

\* C5's case: the first of several inputs failed with status 69.
C5_Witness ==
    /\ pc = "exited"
    /\ idx = 1
    /\ Len(args.inputs) > 1
    /\ calls # <<>>
    /\ calls[Len(calls)] = [tool |-> "ffmpeg", file |-> 1, rc |-> 69]

\* A JSON width or height that is absent or not a number.
Unreadable(j) == j.t = "null" \/ (j.t = "str" /\ ~IsIntLiteral(j.s))

\* A JSON width or height that is absent, not a number, or not positive.
NotPositive(j) ==
    \/ Unreadable(j)
    \/ j.t = "int" /\ j.n <= 0
    \/ j.t = "str" /\ IsIntLiteral(j.s) /\ IntOfLiteral(j.s) <= 0

\* The probe of the current file succeeded and showed no video stream.
NoVideoFound ==
    /\ pc # "crashed"
    /\ v = None
    /\ calls # <<>>
    /\ calls[Len(calls)] = [tool |-> "ffprobe", file |-> idx, rc |-> 0]

\* The current file was skipped with a warning and the batch goes on.
SkippedWithWarning ==
    /\ cmd = <<>>
    /\ printed[idx] = 0
    /\ ExecCount(idx) = 0
    /\ warned # <<>>
    /\ warned[Len(warned)].file = idx
    /\ warned[Len(warned)].kind \in {"no-video", "no-dimensions"}
    /\ pc = "loop" \/ (pc = "done" /\ idx = Len(args.inputs))

\* C6 as stated: no video stream, or a width or height that is absent,
\* non-numeric or not positive, and the file is skipped with a warning.
C6_SkipsUnusableDimensions ==
    ( \/ NoVideoFound
      \/ /\ v # None
         /\ pc # "decide"
         /\ NotPositive(v[1].width) \/ NotPositive(v[1].height) )
    => SkippedWithWarning

\* C6 as the program has it: no video stream, or a width or height that is
\* absent or non-numeric, and the file is skipped with a warning; nothing is
\* built, printed or executed for it and the batch goes on.
C6_SkipsUnreadableDimensions ==
    ( \/ NoVideoFound
      \/ /\ v # None
         /\ Unreadable(v[1].width) \/ Unreadable(v[1].height) )
    => SkippedWithWarning

\* C6's case: the first input had no readable height and was skipped, and
\* the second is on its way to execution.
C6_Witness ==
    /\ warned # <<>>
    /\ warned[1] = [kind |-> "no-dimensions", file |-> 1]
    /\ idx = 2
    /\ pc = "run"

\* C7: a built command is printed, once; under --dry-run nothing is ever
\* executed; otherwise each planned file is executed exactly once.
C7_DryRunNeverExecutes ==
    \A i \in DOMAIN printed :
        /\ printed[i] <= 1
        /\ (i = idx /\ cmd # <<>>) => printed[i] = 1
        /\ args.dry_run => ExecCount(i) = 0
        /\ ~args.dry_run =>
               /\ ExecCount(i) <= printed[i]
               /\ (printed[i] = 1 /\ ~(i = idx /\ pc = "run")) => ExecCount(i) = 1

\* C7's case: a dry run over a stream-copy file and a re-encode file, both
\* printed, the batch done.
C7_Witness ==
    /\ args.dry_run
    /\ pc = "done"
    /\ Len(args.inputs) > 1
    /\ printed[1] = 1 /\ printed[2] = 1
    /\ \E k \in DOMAIN warned : warned[k] = [kind |-> "10-bit", file |-> 1]
    /\ HasFlag(cmd, "-c")

\* C8: when run_live_capture returns, the child has exited, both pumps have
\* finished, and each captured text is all the lines the child wrote on that
\* channel, in order; the terminal saw them too.
C8_CaptureComplete ==
    cap.pc = "returned" =>
        /\ cap.proc = "exited"
        /\ \A ch \in Channels : cap.t[ch].pc = "finished"
        /\ cap.result # None
        /\ cap.result[1] = <<cap.rc, JoinLines(cap.script.out), JoinLines(cap.script.err)>>
        /\ \A ch \in Channels : cap.sink[ch] = cap.script[ch]

\* C8's case: the child wrote two lines on each channel and failed.
C8_Witness ==
    /\ cap.pc = "returned"
    /\ cap.rc = 1
    /\ cap.result[1][2] = "out1\nout2\n"
    /\ cap.result[1][3] = "err1\nerr2\n"

\* The tuple m is suggested more often than every other suggestion.
UniqueMostFrequent(m) ==
    \A t \in Suggestions : t # m => Occurrences(t) < Occurrences(m)

\* The crop C9 names for the mode m in a source of width w.
ConsensusCrop(m, w) ==
    LET cw == EvenFloor(m[1])
        ch == EvenFloor(m[2])
        snapped == EvenFloor(NearestTo43(ch))
    IN  IF 100 * Abs(3 * cw - 4 * ch) < 3 * Abs(ch)
        THEN <<snapped, ch, EvenFloor((w - snapped) \div 2), EvenFloor(m[4])>>
        ELSE <<cw, ch, EvenFloor(m[3]), EvenFloor(m[4])>>

PillarboxExample ==
    <<CropLine(<<1438, 1080, 241, 0>>), CropLine(<<1438, 1080, 241, 0>>),
      CropLine(<<1438, 1080, 241, 0>>), CropLine(<<1440, 1080, 240, 0>>)>>

C10_CenteredCrop ==
    pc = "centered_out" =>
        LET W == EvenFloor(Min(iw[1], NearestTo43(ih[1])))
            H == EvenFloor(ih[1])
        IN  /\ crop = Some(<<W, H, EvenFloor((iw[1] - W) \div 2),
                             EvenFloor((ih[1] - H) \div 2)>>)
            /\ crop[1][1] <= iw[1]
            /\ (iw[1] = 1920 /\ ih[1] = 1080) => crop[1] = <<1440, 1080, 240, 0>>

\* C10's case: a source narrower than 4:3 with odd dimensions, cropped.
C10_Witness ==
    /\ pc = "centered_out"
    /\ iw = Some(7) /\ ih = Some(11)
    /\ crop = Some(<<6, 10, 0, 0>>)

====
